---------------------------- MODULE Spec2Model ----------------------------
(***************************************************************************)
(* A model of creme's HedgeRegressor (src/creme/ensemble/hedging.py) and   *)
(* of the Higher-Order Factorization Machine (src/creme/facto/hofm.py).    *)
(*                                                                         *)
(* One object is constructed per behaviour: either a HedgeRegressor or a   *)
(* HOFMRegressor.  Python floats are modelled by exact rationals (Hedge)   *)
(* and by integers (HOFM, whose quotients are exact on integer latents);   *)
(* rounding is not modelled.  The one floating-point effect the model      *)
(* keeps is the underflow of math.exp to 0.0, without which the total      *)
(* weight of the ensemble can never be 0.                                  *)
(***************************************************************************)
EXTENDS Integers, Sequences, FiniteSets, TLC

(***************************************************************************)
(* Bounds of the model.                                                    *)
(***************************************************************************)
\* The largest number of regressors given to HedgeRegressor.
MaxMembers == 2
\* The largest number of fit_one / fit_predict_one calls on the ensemble.
MaxCalls == 2

\* n_factors, the number of components of a latent vector.
NFactors == 2
\* The largest number of fit_one calls on the factorization machine.
MaxFits == 2
\* clip_gradient, scaled to the model's numbers.
ClipGradient == 2
\* The model calls fit_one and predict_one only while no parameter of the
\* factorization machine exceeds this magnitude.
MaxAbs == 12

\* Feature values and targets presented to the ensemble.
HedgeXs == {0, 1}
HedgeYs == {0, 1, 2}

(***************************************************************************)
(* Exact rational arithmetic: a rational is <<numerator, denominator>>     *)
(* in lowest terms with a positive denominator.                            *)
(***************************************************************************)
Abs(a) == IF a < 0 THEN -a ELSE a

RECURSIVE GCD(_, _)
GCD(a, b) == IF b = 0 THEN a ELSE GCD(b, a % b)

Norm(num, den) ==
    LET g == GCD(Abs(num), Abs(den))
        s == IF den < 0 THEN -1 ELSE 1
    IN  <<(s * num) \div g, (s * den) \div g>>

R(k) == <<k, 1>>
RAdd(a, b) == Norm(a[1] * b[2] + b[1] * a[2], a[2] * b[2])
RSub(a, b) == Norm(a[1] * b[2] - b[1] * a[2], a[2] * b[2])
RMul(a, b) == Norm(a[1] * b[1], a[2] * b[2])
RDiv(a, b) == Norm(a[1] * b[2], a[2] * b[1])
RLt(a, b) == a[1] * b[2] < b[1] * a[2]
RZero == R(0)
ROne == R(1)

RECURSIVE Pow2(_)
Pow2(k) == IF k = 0 THEN 1 ELSE 2 * Pow2(k - 1)

VARIABLES
    obj,          \* which object was constructed: "none", "hedge" or "hofm"
    ctorError,    \* TRUE when the constructor raised
    \* ---- HedgeRegressor
    n,            \* len(self): the number of regressors
    weights,      \* self.weights
    members,      \* the state of each regressor (the target it last saw)
    hpc,          \* "idle", "loop" (inside the for loop), "norm" (after it)
    idx,          \* the loop variable i (1-based)
    pos,          \* the position in the loop body
    via,          \* the entry point of the running call
    hx, hy,       \* the arguments of the running (or last) fit call
    px,           \* the argument of the last predict_one call
    y_pred,       \* the local y_pred
    y_pred_mean,  \* the local y_pred_mean
    total,        \* the local total
    hret,         \* what the last call returned
    op,           \* the last operation that completed
    calls,        \* the number of fit calls started
    \* ---- history of the running (or last) fit_predict_one call
    trace,        \* the steps taken, in order
    w0,           \* self.weights when the call started
    m0,           \* the regressors' states when the call started
    preds,        \* the prediction of each regressor
    losses,       \* the loss of each regressor
    \* ---- HOFMRegressor
    degree,       \* self.degree
    initializer,  \* the latent initializer: "zeros" or "cycle"
    intercept,    \* self.intercept
    fmWeights,    \* self.weights
    latents,      \* self.latents: <<key, order>> -> vector, <<>> when absent
    rng,          \* the number of values the latent initializer has drawn
    fpc,          \* "idle", "accumulate", "update", "raised", "nan"
    fx, fy,       \* the arguments of the running (or last) fit_one call
    fpx,          \* the argument of the last predict_one call
    g_loss,       \* the clipped loss gradient of the running fit
    todo,         \* the <<order, combination>> pairs still to accumulate
    gradients,    \* the local gradients of _update_latents
    upd,          \* the <<key, order>> pairs still to update
    fret,         \* what the last predict_one returned
    fop,          \* the last operation that completed
    fits,         \* the number of fit_one calls started
    \* ---- history of the running (or last) _update_latents call
    lat0,         \* self.latents when fit_one was called
    pre,          \* every latent vector as it was before its update
    handed        \* <<key, order>> -> the gradient given to the optimizer

hedgeVars == <<n, weights, members, hpc, idx, pos, via, hx, hy, px, y_pred,
               y_pred_mean, total, hret, op, calls, trace, w0, m0, preds,
               losses>>
fmVars == <<degree, initializer, intercept, fmWeights, latents, rng, fpc, fx,
            fy, fpx, g_loss, todo, gradients, upd, fret, fop, fits, lat0, pre,
            handed>>
vars == <<obj, ctorError, hedgeVars, fmVars>>

NoRet == [kind |-> "none", val |-> RZero]

(***************************************************************************)
(* The collaborators of HedgeRegressor.                                    *)
(***************************************************************************)
\* A regressor of the ensemble: it predicts the target it was last trained
\* on, shifted by a slope that differs from one regressor to the next.
MemberPredict(i, m, x) == m + (i - 1) * x
MemberFit(i, m, x, y) == y

\* optim.losses.Squared, the default loss.
Loss(y_true, y_pred_) == (y_pred_ - y_true) * (y_pred_ - y_true)

\* math.exp underflows to 0.0 once its argument is negative enough; the
\* threshold is scaled to the losses of the model.
ExpUnderflow == 4

\* A sign slip: the weight grows with the loss.
ExpNeg_Grows(loss) == IF loss >= ExpUnderflow THEN RZero ELSE R(Pow2(loss))

\* math.exp(-self.learning_rate * loss) with learning_rate = ln 2.
ExpNeg(loss) == IF loss >= ExpUnderflow THEN RZero ELSE <<1, Pow2(loss)>>

\* The loop body trains the regressor before it asks for its prediction.
LoopBody_FitFirst == <<"fit", "predict", "reweight">>

\* The order of the statements of the loop body.
LoopBody == <<"predict", "reweight", "fit">>

\* The value of y_pred_mean after the loop has visited the regressors
\* order[1], ..., order[k], with the weights ws and the predictions ps.
RECURSIVE RunningMean(_, _, _, _)
RunningMean(ws, ps, order, k) ==
    IF k = 0 THEN RZero
    ELSE LET m == RunningMean(ws, ps, order, k - 1)
             i == order[k]
         IN  RAdd(m, RDiv(RMul(ws[i], RSub(R(ps[i]), m)), R(Len(ws))))

(***************************************************************************)
(* HedgeRegressor.__init__                                                 *)
(***************************************************************************)
HedgeInit(k) ==
    /\ UNCHANGED fmVars
    /\ obj = "none"
    /\ obj' = "hedge"
    /\ ctorError' = FALSE
    /\ n' = k
    /\ weights' = [i \in 1..k |-> ROne]
    /\ members' = [i \in 1..k |-> 0]
    /\ UNCHANGED <<hpc, idx, pos, via, hx, hy, px, y_pred, y_pred_mean, total,
                   hret, op, calls, trace, w0, m0, preds, losses>>

(***************************************************************************)
(* HedgeRegressor.fit_predict_one, one statement group per step.           *)
(***************************************************************************)
\* The call is entered (through fit_one or directly); the locals are set.
HedgeCall(x, y, entry) ==
    /\ UNCHANGED fmVars
    /\ obj = "hedge"
    /\ hpc = "idle"
    /\ calls < MaxCalls
    /\ calls' = calls + 1
    /\ hx' = x
    /\ hy' = y
    /\ via' = entry
    /\ y_pred_mean' = RZero
    /\ total' = RZero
    /\ y_pred' = 0
    /\ idx' = 1
    /\ pos' = 1
    /\ hpc' = IF n = 0 THEN "norm" ELSE "loop"
    /\ hret' = NoRet
    /\ op' = "running"
    /\ trace' = <<>>
    /\ w0' = weights
    /\ m0' = members
    /\ preds' = <<>>
    /\ losses' = <<>>
    /\ UNCHANGED <<obj, ctorError, n, weights, members, px>>

\* The control flow after one statement group of the loop body.
Advance ==
    IF pos < Len(LoopBody)
    THEN /\ pos' = pos + 1
         /\ UNCHANGED <<idx, hpc>>
    ELSE /\ pos' = 1
         /\ IF idx < n
            THEN idx' = idx + 1 /\ UNCHANGED hpc
            ELSE hpc' = "norm" /\ UNCHANGED idx

\* y_pred = regressor.predict_one(x=x)
\* y_pred_mean += self.weights[i] * (y_pred - y_pred_mean) / len(self)
HedgeStepPredict ==
    /\ UNCHANGED fmVars
    /\ obj = "hedge"
    /\ hpc = "loop"
    /\ LoopBody[pos] = "predict"
    /\ LET p == MemberPredict(idx, members[idx], hx)
       IN  /\ y_pred' = p
           /\ y_pred_mean' =
                 RAdd(y_pred_mean,
                      RDiv(RMul(weights[idx], RSub(R(p), y_pred_mean)), R(n)))
           /\ preds' = Append(preds, p)
    /\ trace' = Append(trace, [ev |-> "predict", i |-> idx])
    /\ Advance
    /\ UNCHANGED <<obj, ctorError, n, weights, members, via, hx, hy, px, total,
                   hret, op, calls, w0, m0, losses>>

\* loss = self.loss(y_true=y, y_pred=y_pred)
\* self.weights[i] *= math.exp(-self.learning_rate * loss)
\* total += self.weights[i]
HedgeStepReweight ==
    /\ UNCHANGED fmVars
    /\ obj = "hedge"
    /\ hpc = "loop"
    /\ LoopBody[pos] = "reweight"
    /\ LET loss == Loss(hy, y_pred)
           w == RMul(weights[idx], ExpNeg(loss))
       IN  /\ weights' = [weights EXCEPT ![idx] = w]
           /\ total' = RAdd(total, w)
           /\ losses' = Append(losses, loss)
    /\ trace' = Append(trace, [ev |-> "reweight", i |-> idx])
    /\ Advance
    /\ UNCHANGED <<obj, ctorError, n, members, via, hx, hy, px, y_pred,
                   y_pred_mean, hret, op, calls, w0, m0, preds>>

\* regressor.fit_one(x, y)
HedgeStepFit ==
    /\ UNCHANGED fmVars
    /\ obj = "hedge"
    /\ hpc = "loop"
    /\ LoopBody[pos] = "fit"
    /\ members' = [members EXCEPT ![idx] = MemberFit(idx, members[idx], hx, hy)]
    /\ trace' = Append(trace, [ev |-> "fit", i |-> idx])
    /\ Advance
    /\ UNCHANGED <<obj, ctorError, n, weights, via, hx, hy, px, y_pred,
                   y_pred_mean, total, hret, op, calls, w0, m0, preds, losses>>

\* The weights divided by their number instead of their sum.
Normalized_ByCount(ws, tot) ==
    IF tot # RZero THEN [i \in 1..Len(ws) |-> RDiv(ws[i], R(Len(ws)))] ELSE ws

\* Another policy for the degenerate case: back to the uniform prior.
Normalized_ResetUniform(ws, tot) ==
    IF tot # RZero THEN [i \in 1..Len(ws) |-> RDiv(ws[i], tot)]
    ELSE [i \in 1..Len(ws) |-> ROne]

\* if total: for i, _ in enumerate(self.weights): self.weights[i] /= total
Normalized(ws, tot) ==
    IF tot # RZero THEN [i \in 1..Len(ws) |-> RDiv(ws[i], tot)] ELSE ws

\* The normalization and the return; fit_one returns self instead.
HedgeFinish ==
    /\ UNCHANGED fmVars
    /\ obj = "hedge"
    /\ hpc = "norm"
    /\ weights' = Normalized(weights, total)
    /\ trace' = Append(trace, [ev |-> IF total # RZero THEN "normalize" ELSE "skip",
                               i |-> 0])
    /\ hret' = IF via = "fit_one"
               THEN [kind |-> "self", val |-> RZero]
               ELSE [kind |-> "value", val |-> y_pred_mean]
    /\ op' = via
    /\ hpc' = "idle"
    /\ UNCHANGED <<obj, ctorError, n, members, idx, pos, via, hx, hy, px, y_pred,
                   y_pred_mean, total, calls, w0, m0, preds, losses>>

(***************************************************************************)
(* HedgeRegressor.predict_one                                              *)
(***************************************************************************)
\* sum(...) over zip(self, self.weights), from the left.
RECURSIVE ZipSum(_, _, _, _)
ZipSum(ms, ws, x, k) ==
    IF k = 0 THEN RZero
    ELSE RAdd(ZipSum(ms, ws, x, k - 1),
              RMul(R(MemberPredict(k, ms[k], x)), ws[k]))

\* predict_one that also renormalizes the weights it reads.
HedgePredictOne_Renormalizes(x) ==
    /\ UNCHANGED fmVars
    /\ obj = "hedge"
    /\ hpc = "idle"
    /\ hret' = [kind |-> "value", val |-> ZipSum(members, weights, x, n)]
    /\ op' = "predict_one"
    /\ px' = x
    /\ weights' = [i \in 1..n |-> RDiv(weights[i], R(n))]
    /\ UNCHANGED <<obj, ctorError, n, members, hpc, idx, pos, via, hx, hy, y_pred,
                   y_pred_mean, total, calls, trace, w0, m0, preds, losses>>

HedgePredictOne(x) ==
    /\ UNCHANGED fmVars
    /\ obj = "hedge"
    /\ hpc = "idle"
    /\ hret' = [kind |-> "value", val |-> ZipSum(members, weights, x, n)]
    /\ op' = "predict_one"
    /\ px' = x
    /\ UNCHANGED <<obj, ctorError, n, weights, members, hpc, idx, pos, via,
                   hx, hy, y_pred, y_pred_mean, total, calls, trace, w0, m0,
                   preds, losses>>

(***************************************************************************)
(* The Higher-Order Factorization Machine.                                 *)
(*                                                                         *)
(* An instance x is the sequence of its <<key, value>> items, in the       *)
(* order of the dict.  Learning rates are 1, so that integer parameters    *)
(* stay integers.                                                          *)
(***************************************************************************)
Keys == {"a", "b", "c"}

\* degree=3, the default.
DefaultDegree == 3
Orders == 2..DefaultDegree
Entries == Keys \X Orders

\* l1_weight, l2_weight, l1_latent, l2_latent and intercept: the defaults.
L1Weight == 0
L2Weight == 0
L1Latent == 0
L2Latent == 0
InitialIntercept == 0

Instances ==
    { << <<"a", 1>>, <<"b", 1>>, <<"c", 1>> >>,
      << <<"a", 1>>, <<"b", 1>> >>,
      << <<"a", 1>>, <<"b", 0>>, <<"c", 1>> >>,
      << <<"c", 2>>, <<"a", 1>> >>,
      << <<"b", 1>> >> }
FMYs == {0, 1}

KeysOf(x) == [i \in 1..Len(x) |-> x[i][1]]
KeySet(x) == {x[i][1] : i \in 1..Len(x)}
Val(x, j) == LET i == CHOOSE i \in 1..Len(x) : x[i][1] = j IN x[i][2]

\* utils.math.sign and utils.math.clamp
Sign(v) == IF v < 0 THEN -1 ELSE IF v > 0 THEN 1 ELSE 0
Clamp(v, lo, hi) == IF v < lo THEN lo ELSE IF v > hi THEN hi ELSE v

RECURSIVE Prod(_)
Prod(s) == IF s = <<>> THEN 1 ELSE Head(s) * Prod(Tail(s))

RECURSIVE SeqSum(_)
SeqSum(s) == IF s = <<>> THEN 0 ELSE Head(s) + SeqSum(Tail(s))

\* itertools.combinations(s, l), as a sequence.
RECURSIVE Combs(_, _)
Combs(s, l) ==
    IF l = 0 THEN << <<>> >>
    ELSE IF Len(s) < l THEN <<>>
    ELSE LET rest == Combs(Tail(s), l - 1)
         IN  [i \in 1..Len(rest) |-> <<Head(s)>> \o rest[i]] \o Combs(Tail(s), l)

\* for l in range(2, degree + 1) for combination in combinations(x.keys(), l)
RECURSIVE CombosFrom(_, _, _)
CombosFrom(x, l, d) ==
    IF l > d THEN <<>>
    ELSE LET cs == Combs(KeysOf(x), l)
         IN  [i \in 1..Len(cs) |-> <<l, cs[i]>>] \o CombosFrom(x, l + 1, d)
AllCombos(x, d) == CombosFrom(x, 2, d)

\* The latent initializer: Zeros, or a stream of values that stands for a
\* seeded random one.
Cycle == <<1, 2, -1>>
Draw(init, k) == IF init = "zeros" THEN 0 ELSE Cycle[(k % Len(Cycle)) + 1]

\* self.latents[j][l] of the defaultdict: the vector is created when absent.
Touch(st, e) ==
    IF st.lat[e] # <<>> THEN st
    ELSE [lat |-> [st.lat EXCEPT
                     ![e] = [f \in 1..NFactors |-> Draw(initializer, st.rng + f - 1)]],
          rng |-> st.rng + NFactors]

RECURSIVE TouchAll(_, _)
TouchAll(st, es) == IF es = <<>> THEN st ELSE TouchAll(Touch(st, Head(es)), Tail(es))

\* The entries one combination reads, in the order it reads them.
ComboEntries(lc) == [i \in 1..Len(lc[2]) |-> <<lc[2][i], lc[1]>>]

RECURSIVE CombosEntries(_)
CombosEntries(lcs) ==
    IF lcs = <<>> THEN <<>> ELSE ComboEntries(Head(lcs)) \o CombosEntries(Tail(lcs))

\* The product of the features of a combination, forgotten.
FeatureProduct_Dropped(x, comb) == 1

\* functools.reduce(lambda x, y: x * y, (x[j] for j in combination))
FeatureProduct(x, comb) == Prod([i \in 1..Len(comb) |-> Val(x, comb[i])])

\* functools.reduce(lambda x, y: x * y, (v[j][l][f] for j in combination))
LatentProduct(lat, l, comb, f) ==
    Prod([i \in 1..Len(comb) |-> lat[<<comb[i], l>>][f]])

\* HOFM._calculate_interaction
CalculateInteraction(lat, x, l, comb) ==
    FeatureProduct(x, comb)
        * SeqSum([f \in 1..NFactors |-> LatentProduct(lat, l, comb, f)])

\* HOFM._calculate_interactions, with the vectors it creates on the way.
CalculateInteractions(st, x, d) ==
    LET lcs == AllCombos(x, d)
        st2 == TouchAll(st, CombosEntries(lcs))
    IN  [val |-> SeqSum([i \in 1..Len(lcs) |->
                            CalculateInteraction(st2.lat, x, lcs[i][1], lcs[i][2])]),
         lat |-> st2.lat,
         rng |-> st2.rng]

\* BaseFM._raw_dot: the intercept, the linear term and the interactions.
RawDot(st, w, b, x, d) ==
    LET r == CalculateInteractions(st, x, d)
    IN  [r EXCEPT !.val = b + SeqSum([i \in 1..Len(x) |-> w[x[i][1]] * x[i][2]]) + r.val]

\* HOFM._calculate_weights_gradients
CalculateWeightsGradients(w, x, g) ==
    [j \in KeySet(x) |-> g * Val(x, j) + L1Weight * Sign(w[j]) + L2Weight * w[j]]

\* Optimizer.update_after_pred: gradient descent with learning rate 1.
UpdateAfterPred(w, g) == [f \in DOMAIN w |-> w[f] - g[f]]

\* The gradient of optim.losses.Squared with respect to the prediction.
LossGradient(y_true, y_pred_) == 2 * (y_pred_ - y_true)

NoVectors == [e \in Entries |-> <<>>]
ZeroGradients == [e \in Entries |-> [f \in 1..NFactors |-> 0]]

\* for j in x.keys(): for l in range(2, degree + 1)
UpdateList(x, d) ==
    LET ks == KeysOf(x)
        m == IF d >= 2 THEN d - 1 ELSE 0
    IN  [i \in 1..(Len(ks) * m) |-> <<ks[((i - 1) \div m) + 1], 2 + ((i - 1) % m)>>]

\* Every vector of `old`, and the vectors of `new` that `old` lacks.
Fill(old, new) == [e \in Entries |-> IF old[e] # <<>> THEN old[e] ELSE new[e]]

\* No parameter exceeds the magnitude the model explores.
Small ==
    /\ Abs(intercept) <= MaxAbs
    /\ \A j \in Keys : Abs(fmWeights[j]) <= MaxAbs
    /\ \A e \in Entries : \A f \in DOMAIN latents[e] : Abs(latents[e][f]) <= MaxAbs

(***************************************************************************)
(* HOFM.__init__ (through HOFMRegressor.__init__)                          *)
(***************************************************************************)
HOFMInit(d, init) ==
    /\ UNCHANGED hedgeVars
    /\ obj = "none"
    /\ obj' = "hofm"
    /\ ctorError' = FALSE
    /\ degree' = d
    /\ initializer' = init
    /\ intercept' = InitialIntercept
    /\ fmWeights' = [j \in Keys |-> 0]
    /\ latents' = NoVectors
    /\ UNCHANGED <<rng, fpc, fx, fy, fpx, g_loss, todo, gradients, upd, fret, fop,
                   fits, lat0, pre, handed>>

(***************************************************************************)
(* HOFMRegressor.predict_one                                               *)
(***************************************************************************)
HOFMPredictOne(x) ==
    /\ UNCHANGED hedgeVars
    /\ obj = "hofm"
    /\ fpc = "idle"
    /\ Small
    /\ LET r == RawDot([lat |-> latents, rng |-> rng], fmWeights, intercept, x, degree)
       IN  /\ fret' = r.val
           /\ latents' = r.lat
           /\ rng' = r.rng
    /\ fpx' = x
    /\ fop' = "predict_one"
    /\ UNCHANGED <<obj, ctorError, degree, initializer, intercept, fmWeights,
                   fpc, fx, fy, g_loss, todo, gradients, upd, fits, lat0, pre,
                   handed>>

(***************************************************************************)
(* BaseFM.fit_one up to its call of _update_latents: the raw score, the    *)
(* clipped loss gradient, the intercept and the weights.                   *)
(***************************************************************************)
HOFMFitOne(x, y) ==
    /\ UNCHANGED hedgeVars
    /\ obj = "hofm"
    /\ fpc = "idle"
    /\ fits < MaxFits
    /\ Small
    /\ fits' = fits + 1
    /\ fx' = x
    /\ fy' = y
    /\ LET r == RawDot([lat |-> latents, rng |-> rng], fmWeights, intercept, x, degree)
           g == Clamp(LossGradient(y, r.val), -ClipGradient, ClipGradient)
           wg == CalculateWeightsGradients(fmWeights, x, g)
           lcs == AllCombos(x, degree)
           us == UpdateList(x, degree)
       IN  /\ g_loss' = g
           /\ intercept' = intercept - g
           /\ fmWeights' = [j \in Keys |->
                              IF j \in KeySet(x) THEN fmWeights[j] - wg[j]
                              ELSE fmWeights[j]]
           /\ latents' = r.lat
           /\ rng' = r.rng
           /\ pre' = r.lat
           /\ todo' = lcs
           /\ upd' = us
           /\ fpc' = IF lcs # <<>> THEN "accumulate"
                     ELSE IF us # <<>> THEN "update" ELSE "idle"
           /\ fop' = IF lcs = <<>> /\ us = <<>> THEN "fit_one" ELSE "running"
    /\ lat0' = latents
    /\ gradients' = ZeroGradients
    /\ handed' = NoVectors
    /\ UNCHANGED <<obj, ctorError, degree, initializer, fpx, fret>>

(***************************************************************************)
(* HOFM._update_latents, first loop: one combination per step.             *)
(***************************************************************************)
\* gradients[j][l][f] += feature_product * latent_product / v[j][l][f]
\* for every f and every j of the combination.
Accumulated(grads, lat, x, l, comb) ==
    LET fp == FeatureProduct(x, comb)
        hits(j) == Cardinality({i \in 1..Len(comb) : comb[i] = j})
    IN  [e \in Entries |->
            IF e[2] = l /\ hits(e[1]) > 0
            THEN [f \in 1..NFactors |->
                    grads[e][f]
                      + (fp * LatentProduct(lat, l, comb, f)) \div lat[e][f]]
            ELSE grads[e]]

\* The combination divides by a latent component that is 0.
DividesByZero(lat, l, comb) ==
    \E i \in 1..Len(comb), f \in 1..NFactors : lat[<<comb[i], l>>][f] = 0

HOFMAccumulate ==
    /\ UNCHANGED hedgeVars
    /\ obj = "hofm"
    /\ fpc = "accumulate"
    /\ LET lc == Head(todo)
           st == TouchAll([lat |-> latents, rng |-> rng], ComboEntries(lc))
       IN  /\ latents' = st.lat
           /\ rng' = st.rng
           /\ pre' = Fill(pre, st.lat)
           /\ IF DividesByZero(st.lat, lc[1], lc[2])
              THEN \* float / 0.0 raises ZeroDivisionError; numpy.float64 / 0.0
                   \* is nan: which one depends on what the initializer returns.
                   /\ \/ fpc' = "raised"
                      \/ fpc' = "nan"
                   /\ UNCHANGED <<gradients, todo>>
              ELSE /\ gradients' = Accumulated(gradients, st.lat, fx, lc[1], lc[2])
                   /\ todo' = Tail(todo)
                   /\ fpc' = IF Tail(todo) # <<>> THEN "accumulate" ELSE "update"
    /\ UNCHANGED <<obj, ctorError, degree, initializer, intercept, fmWeights,
                   fx, fy, fpx, g_loss, upd, fret, fop, fits, lat0, handed>>

(***************************************************************************)
(* HOFM._update_latents, second loop: one (key, order) pair per step.      *)
(***************************************************************************)
\* The gradient of (j, l) computed when the pair is updated, from the latents
\* as they are by then.
RawGradient_Recomputed(e) ==
    LET lcs == AllCombos(fx, degree)
        mine == {i \in 1..Len(lcs) :
                    lcs[i][1] = e[2] /\ \E k \in 1..Len(lcs[i][2]) : lcs[i][2][k] = e[1]}
        term(i, f) == (FeatureProduct(fx, lcs[i][2])
                         * LatentProduct(latents, e[2], lcs[i][2], f)) \div latents[e][f]
        RECURSIVE Total(_, _)
        Total(S, f) == IF S = {} THEN 0
                       ELSE LET i == CHOOSE i \in S : TRUE
                            IN  term(i, f) + Total(S \ {i}, f)
    IN  [f \in 1..NFactors |-> IF latents[e] = <<>> THEN 0 ELSE Total(mine, f)]

\* gradients[j][l], accumulated by the first loop.
RawGradient(e) == gradients[e]

HOFMUpdate ==
    /\ UNCHANGED hedgeVars
    /\ obj = "hofm"
    /\ fpc = "update"
    /\ LET e == Head(upd)
           st == Touch([lat |-> latents, rng |-> rng], e)
           v == st.lat[e]
           raw == RawGradient(e)
           g == [f \in 1..NFactors |->
                    g_loss * raw[f] + L1Latent * Sign(v[f]) + 2 * L2Latent * v[f]]
       IN  /\ latents' = [st.lat EXCEPT ![e] = UpdateAfterPred(v, g)]
           /\ rng' = st.rng
           /\ pre' = Fill(pre, st.lat)
           /\ handed' = [handed EXCEPT ![e] = g]
    /\ upd' = Tail(upd)
    /\ fpc' = IF Tail(upd) # <<>> THEN "update" ELSE "idle"
    /\ fop' = IF Tail(upd) # <<>> THEN fop ELSE "fit_one"
    /\ UNCHANGED <<obj, ctorError, degree, initializer, intercept, fmWeights,
                   fx, fy, fpx, g_loss, todo, gradients, fret, fits, lat0>>

(***************************************************************************)
(* The specification.                                                      *)
(***************************************************************************)
Init ==
    /\ obj = "none"
    /\ ctorError = FALSE
    /\ n = 0
    /\ weights = <<>>
    /\ members = <<>>
    /\ hpc = "idle"
    /\ idx = 1
    /\ pos = 1
    /\ via = "none"
    /\ hx = 0
    /\ px = 0
    /\ hy = 0
    /\ y_pred = 0
    /\ y_pred_mean = RZero
    /\ total = RZero
    /\ hret = NoRet
    /\ op = "none"
    /\ calls = 0
    /\ trace = <<>>
    /\ w0 = <<>>
    /\ m0 = <<>>
    /\ preds = <<>>
    /\ losses = <<>>
    /\ degree = DefaultDegree
    /\ initializer = "cycle"
    /\ intercept = InitialIntercept
    /\ fmWeights = [j \in Keys |-> 0]
    /\ latents = NoVectors
    /\ rng = 0
    /\ fpc = "idle"
    /\ fx = <<>>
    /\ fpx = <<>>
    /\ fy = 0
    /\ g_loss = 0
    /\ todo = <<>>
    /\ gradients = ZeroGradients
    /\ upd = <<>>
    /\ fret = 0
    /\ fop = "none"
    /\ fits = 0
    /\ lat0 = NoVectors
    /\ pre = NoVectors
    /\ handed = NoVectors

Next ==
    \/ \E d \in 1..DefaultDegree, init \in {"zeros", "cycle"} : HOFMInit(d, init)
    \/ \E k \in 0..MaxMembers : HedgeInit(k)
    \/ \E x \in HedgeXs, y \in HedgeYs, entry \in {"fit_one", "fit_predict_one"} :
          HedgeCall(x, y, entry)
    \/ HedgeStepPredict
    \/ HedgeStepReweight
    \/ HedgeStepFit
    \/ HedgeFinish
    \/ \E x \in HedgeXs : HedgePredictOne(x)
    \/ \E x \in Instances : HOFMPredictOne(x)
    \/ \E x \in Instances, y \in FMYs : HOFMFitOne(x, y)
    \/ HOFMAccumulate
    \/ HOFMUpdate

Spec == Init /\ [][Next]_vars

(***************************************************************************)
(* Properties of HedgeRegressor.                                           *)
(***************************************************************************)
RECURSIVE RSum(_, _)
RSum(ws, k) == IF k = 0 THEN RZero ELSE RAdd(RSum(ws, k - 1), ws[k])

\* A fit call has returned and no call is running.
HedgeReturned == obj = "hedge" /\ hpc = "idle" /\ calls > 0

\* C1: after every fit_one / fit_predict_one call whose post-update total
\* weight is not 0 (and then no earlier total was 0 either: once every weight
\* is 0 the total stays 0), the weights sum to 1, none is negative, and there
\* is one weight per regressor.
C1_WeightSimplex ==
    (HedgeReturned /\ total # RZero) =>
        /\ Len(weights) = n
        /\ RSum(weights, n) = ROne
        /\ \A i \in 1..n : ~RLt(weights[i], RZero)

C1_Witness ==
    /\ HedgeReturned
    /\ total # RZero
    /\ calls = 2
    /\ n = 2
    /\ weights[1] # weights[2]
    /\ w0 # [i \in 1..n |-> ROne]

\* The permutations of 1..k.
Perms(k) == {f \in [1..k -> 1..k] : \A i, j \in 1..k : i # j => f[i] # f[j]}

\* The plain weighted average of the predictions.
RECURSIVE DotSum(_, _, _)
DotSum(ws, ps, k) ==
    IF k = 0 THEN RZero ELSE RAdd(DotSum(ws, ps, k - 1), RMul(ws[k], R(ps[k])))
WeightedAverage(ws, ps) == RDiv(DotSum(ws, ps, Len(ws)), RSum(ws, Len(ws)))

\* C2: the value fit_predict_one returns is the same for every order in
\* which the regressors could be processed, and it is the plain weighted
\* average of their predictions under the weights the call started with.
C2_MeanOrderIndependent ==
    (HedgeReturned /\ op = "fit_predict_one" /\ n > 0) =>
        /\ \A f \in Perms(n) : RunningMean(w0, preds, f, n) = hret.val
        /\ RSum(w0, n) # RZero => hret.val = WeightedAverage(w0, preds)

\* C6 as stated: at the end of the loop (weights multiplied, not yet
\* normalized), for regressors a, b with loss_a < loss_b the ratio
\* weight_a / weight_b is strictly greater than it was when the call started
\* (cross-multiplied, as a weight may be 0).
C6_RatioIncreases_AsStated ==
    (obj = "hedge" /\ hpc = "norm") =>
        \A a, b \in 1..n :
            losses[a] < losses[b] =>
                RLt(RMul(w0[a], weights[b]), RMul(weights[a], w0[b]))

\* C6 amended: the same, for two regressors whose weights are both nonzero
\* after the multiplicative update.
C6_RatioIncreases ==
    (obj = "hedge" /\ hpc = "norm") =>
        \A a, b \in 1..n :
            (losses[a] < losses[b] /\ weights[a] # RZero /\ weights[b] # RZero) =>
                RLt(RMul(w0[a], weights[b]), RMul(weights[a], w0[b]))

C6_Witness ==
    /\ obj = "hedge"
    /\ hpc = "norm"
    /\ calls = 2
    /\ \E a, b \in 1..n :
          /\ losses[a] < losses[b]
          /\ weights[a] # RZero
          /\ weights[b] # RZero
          /\ w0[a] # w0[b]

\* The sum of weight[i] * prediction[i] over the regressors, from the right.
RECURSIVE WeightedSum(_, _, _, _)
WeightedSum(ms, ws, x, k) ==
    IF k > Len(ws) THEN RZero
    ELSE RAdd(RMul(ws[k], R(MemberPredict(k, ms[k], x))),
              WeightedSum(ms, ws, x, k + 1))

\* C8: predict_one(x) returns the sum of weight[i] * member[i].predict_one(x)
\* under the current weights, and leaves the weights, the regressors and the
\* record of the last fit call as they were.
C8_PredictOneFrame ==
    [][op' = "predict_one" =>
          /\ hret'.kind = "value"
          /\ hret'.val = WeightedSum(members, weights, px', 1)
          /\ weights' = weights
          /\ members' = members
          /\ trace' = trace
          /\ calls' = calls]_vars

C8_Witness ==
    /\ obj = "hedge"
    /\ op = "predict_one"
    /\ calls > 0
    /\ n = 2
    /\ hret.val # RZero
    /\ weights[1] # weights[2]

\* The steps of one call over k regressors, in the order the spec gives.
RECURSIVE ExpectedTrace(_)
ExpectedTrace(k) ==
    IF k = 0 THEN <<>>
    ELSE ExpectedTrace(k - 1) \o <<[ev |-> "predict", i |-> k],
                                   [ev |-> "reweight", i |-> k],
                                   [ev |-> "fit", i |-> k]>>

\* C9: in one fit_predict_one call the regressors are processed in index
\* order, each predicted, then reweighted, then trained, exactly once; the
\* loss that reweights a regressor comes from its state before this sample;
\* and the renormalization comes after the last regressor.
C9_StepOrder ==
    (obj = "hedge" /\ calls > 0) =>
        /\ Len(trace) <= 3 * n + 1
        /\ \A k \in 1..Len(trace) :
              IF k <= 3 * n THEN trace[k] = ExpectedTrace(n)[k]
              ELSE trace[k].ev \in {"normalize", "skip"}
        /\ hpc = "idle" => Len(trace) = 3 * n + 1
        /\ \A i \in 1..Len(losses) :
              losses[i] = Loss(hy, MemberPredict(i, m0[i], hx))
        /\ hpc = "idle" =>
              \A i \in 1..n : members[i] = MemberFit(i, m0[i], hx, hy)

C9_Witness ==
    /\ HedgeReturned
    /\ calls = 2
    /\ n = 2
    /\ m0 # members
    /\ losses[1] # losses[2]
    /\ trace[Len(trace)].ev = "normalize"

\* C10: when the total of the post-update weights is exactly 0 the call
\* still returns: the weights stay as the multiplicative update left them
\* (all 0), every regressor was trained, and fit_predict_one returns its
\* running mean.
C10_DegenerateTotal ==
    (HedgeReturned /\ total = RZero) =>
        /\ weights = [i \in 1..n |-> RMul(w0[i], ExpNeg(losses[i]))]
        /\ \A i \in 1..n : weights[i] = RZero
        /\ \A i \in 1..n : members[i] = MemberFit(i, m0[i], hx, hy)
        /\ trace[Len(trace)].ev = "skip"
        /\ op = "fit_predict_one" => hret = [kind |-> "value", val |-> y_pred_mean]
        /\ op = "fit_one" => hret.kind = "self"

C10_Witness ==
    /\ HedgeReturned
    /\ total = RZero
    /\ n = 2
    /\ \A i \in 1..n : w0[i] # RZero
    /\ op = "fit_predict_one"

(***************************************************************************)
(* Properties of the constructors and of the factorization machine.        *)
(***************************************************************************)
\* C3: a latent component that is exactly 0 in a combination of the instance
\* raises no error in the gradient accumulation: it counts as a zero
\* derivative and _update_latents goes on to update every latent vector.
C3_ZeroLatentIsNoError ==
    obj = "hofm" => fpc \notin {"raised", "nan"}

\* C4: an invalid configuration is rejected by the constructor: an HOFM with
\* degree < 2, or a HedgeRegressor with no regressors.
C4_InvalidConfigRejected ==
    /\ (obj = "hofm" /\ degree < 2) => ctorError
    /\ (obj = "hedge" /\ n = 0) => ctorError

\* The derivative of the interaction terms of order e[2] with respect to the
\* latent components of key e[1], from the latent table latv: over every
\* combination that holds the key, the product of the features times the
\* product of the other keys' components.
GradientFrom(latv, x, e) ==
    LET cs == Combs(KeysOf(x), e[2])
        mine == {i \in 1..Len(cs) : \E k \in 1..Len(cs[i]) : cs[i][k] = e[1]}
        term(i, f) ==
            Prod([k \in 1..Len(cs[i]) |-> Val(x, cs[i][k])])
              * Prod([k \in 1..Len(cs[i]) |->
                        IF cs[i][k] = e[1] THEN 1 ELSE latv[<<cs[i][k], e[2]>>][f]])
        RECURSIVE Total(_, _)
        Total(S, f) == IF S = {} THEN 0
                       ELSE LET i == CHOOSE i \in S : TRUE
                            IN  term(i, f) + Total(S \ {i}, f)
    IN  [f \in 1..NFactors |-> Total(mine, f)]

PenalizedFrom(latv, x, g, e) ==
    LET raw == GradientFrom(latv, x, e)
    IN  [f \in 1..NFactors |->
            g * raw[f] + L1Latent * Sign(latv[e][f]) + 2 * L2Latent * latv[e][f]]

\* C5: within one _update_latents call every gradient vector given to the
\* latent optimizer is the one computed from the latent values as they were
\* before any update of the call, and no latent vector is replaced while the
\* gradients are being accumulated.
C5_GradientsBeforeUpdates ==
    obj = "hofm" =>
        /\ \A e \in Entries :
              handed[e] # <<>> => handed[e] = PenalizedFrom(pre, fx, g_loss, e)
        /\ \A e \in Entries :
              (lat0[e] # <<>> /\ fpc # "idle") => pre[e] = lat0[e]
        /\ fpc = "accumulate" =>
              \A e \in Entries : handed[e] = <<>> /\ latents[e] = pre[e]

C5_Witness ==
    /\ obj = "hofm"
    /\ fpc = "idle"
    /\ fop = "fit_one"
    /\ degree = 3
    /\ Len(fx) = 3
    /\ g_loss # 0
    /\ \A j \in Keys : latents[<<j, 3>>] # pre[<<j, 3>>]
    /\ \A j \in Keys : \E f \in 1..NFactors : handed[<<j, 3>>][f] # 0

\* The instance x with the key k added at position p, with the value 0.
InsertZero(x, k, p) == SubSeq(x, 1, p) \o << <<k, 0>> >> \o SubSeq(x, p + 1, Len(x))

\* What predict_one would return in the current state.
ScoreOf(x) ==
    RawDot([lat |-> latents, rng |-> rng], fmWeights, intercept, x, degree).val

\* Every combination of x that holds the key k contributes 0.
ZeroKeyContributesNothing(x, k) ==
    LET lcs == AllCombos(x, degree)
        st == TouchAll([lat |-> latents, rng |-> rng], CombosEntries(lcs))
    IN  \A i \in 1..Len(lcs) :
            (\E m \in 1..Len(lcs[i][2]) : lcs[i][2][m] = k) =>
                CalculateInteraction(st.lat, x, lcs[i][1], lcs[i][2]) = 0

\* (The properties of predict_one are evaluated in the states in which the
\* model calls it: no call is running and the parameters are Small.)
\* C7 as stated: in any state of the model, adding a zero-valued key to an
\* instance changes nothing of what predict_one returns, and every
\* combination that holds the key contributes 0.
C7_SparsityInvariance_AsStated ==
    (obj = "hofm" /\ fpc = "idle" /\ Small) =>
        \A x \in Instances : \A k \in Keys \ KeySet(x) : \A p \in 0..Len(x) :
            /\ ScoreOf(InsertZero(x, k, p)) = ScoreOf(x)
            /\ ZeroKeyContributesNothing(InsertZero(x, k, p), k)

\* The latent vectors predict_one reads for x all exist.
LatentsExist(x) ==
    LET es == CombosEntries(AllCombos(x, degree))
    IN  \A i \in 1..Len(es) : latents[es[i]] # <<>>

\* C7 amended: the same, for an instance whose latent vectors already exist
\* (the call on it draws nothing from the initializer).
C7_SparsityInvariance ==
    (obj = "hofm" /\ fpc = "idle" /\ Small) =>
        \A x \in Instances : \A k \in Keys \ KeySet(x) : \A p \in 0..Len(x) :
            /\ LatentsExist(x) => ScoreOf(InsertZero(x, k, p)) = ScoreOf(x)
            /\ ZeroKeyContributesNothing(InsertZero(x, k, p), k)

C7_Witness ==
    /\ obj = "hofm"
    /\ fpc = "idle"
    /\ Small
    /\ fop = "predict_one"
    /\ fits > 0
    /\ \E i \in 1..Len(fpx) : fpx[i][2] = 0
    /\ LatentsExist(<< <<"a", 1>>, <<"b", 1>> >>)
    /\ ScoreOf(<< <<"a", 1>>, <<"b", 1>> >>) # intercept + fmWeights["a"] + fmWeights["b"]
    /\ fret # intercept + SeqSum([i \in 1..Len(fpx) |-> fmWeights[fpx[i][1]] * fpx[i][2]])

=============================================================================
